---- MODULE Spec2Model ----
(***************************************************************************)
(* Buffer pool manager (src/buffer/buffer_pool_manager.cpp) and its page   *)
(* replacer (src/buffer/lru_replacer.cpp).                                 *)
(***************************************************************************)
EXTENDS Integers, Sequences, FiniteSets, TLC

\* ------------------------------------------------------------------ bounds
\* number of frames of the pool (constructor argument pool_size)
pool_size_ == 2
\* AllocatePage hands out 0 .. MaxPageId-1
MaxPageId == 4
\* DeletePage is called on at most MaxDeallocated different identifiers
MaxDeallocated == 1
\* cap of the pin counters (guards of FetchPage)
MaxPin == 2
\* page contents are one value of 0 .. MaxByte; 0 is the zeroed buffer
MaxByte == 1
\* pages allocated while round trips are followed
MaxRoundTrip == 3
\* threads calling the pool at once
NumThreads == 2

INVALID_PAGE_ID == -1
NoFrame == -1

Frames == 0 .. (pool_size_ - 1)
PageIds == 0 .. (MaxPageId - 1)
Bytes == 0 .. MaxByte
Threads == 1 .. NumThreads

VARIABLES
  page_table_,    \* page id -> frame index (a function on the resident ids)
  free_list_,     \* sequence of frame indices
  pages_,         \* frame index -> [page_id_, pin_count_, is_dirty_, data_]
  replacer_,      \* LRUReplacer: [pages, current_index, size]
  disk,           \* disk manager: page id -> persisted bytes
  next_page_id,   \* disk manager: next identifier AllocatePage returns
  deallocated,    \* disk manager: the identifiers DeallocatePage was called with
  status,         \* "ok"; "crashed" (faulted in a handler); "hung" (waits for its own lock)
  \* history of the calls, kept for the properties that speak of earlier calls
  last_fetch,     \* the page of the call just made if it was a successful FetchPage
  owed,           \* pages unpinned dirty right after their FetchPage, still in that frame
  rt,             \* per page: how far the NewPage / write / unpin dirty / evict round trip got
  fresh,          \* ids unpinned, in order, into a replacer that tracked nothing, with no Pin, Victim or repeat since
  \* threads inside NewPageImpl, which takes no lock
  pc,             \* thread -> the statement of NewPageImpl it is about to run, or "idle"
  local           \* thread -> NewPageImpl's locals [temp_page_id, frame_id, temp]

pool == <<page_table_, free_list_, pages_, replacer_, disk, next_page_id, deallocated, status>>
hist == <<last_fetch, owed, rt, fresh>>
mt == <<pc, local>>
vars == <<pool, hist, mt>>

\* ------------------------------------------------------------ LRUReplacer
capacity == pool_size_

PageNode(id) == [reference_bit |-> FALSE, page_id |-> id, pin_num |-> 0]

\* position (1-based) of the node of id in the vector, 0 if none
RECURSIVE FindNode(_, _, _)
FindNode(ps, id, i) ==
  IF i > Len(ps) THEN 0
  ELSE IF ps[i].page_id = id THEN i
  ELSE FindNode(ps, id, i + 1)

Tracked(r, id) == FindNode(r.pages, id, 1) # 0

\* the ids Size() counts: tracked and not pinned
Eligible(r) == {r.pages[i].page_id : i \in {j \in 1 .. Len(r.pages) : r.pages[j].pin_num = 0}}

\* (mutant) the node stays in the vector
RemoveAt_Keeps(ps, i) == ps

RemoveAt(ps, i) == [j \in 1 .. (Len(ps) - 1) |-> IF j < i THEN ps[j] ELSE ps[j + 1]]

\* the while(true) loop of Victim: ps the vector, ci the 0-based cursor
RECURSIVE VictimScan(_, _, _)
VictimScan(ps, ci, sz) ==
  IF ps[ci + 1].pin_num # 0
    THEN VictimScan(ps, (ci + 1) % Len(ps), sz)
  ELSE IF ps[ci + 1].reference_bit
    THEN VictimScan([ps EXCEPT ![ci + 1].reference_bit = FALSE], (ci + 1) % Len(ps), sz)
  ELSE [found |-> TRUE,
        frame_id |-> ps[ci + 1].page_id,
        r |-> [pages |-> RemoveAt(ps, ci + 1),
               current_index |-> IF sz - 1 # 0 THEN ci % (sz - 1) ELSE 0,
               size |-> sz - 1]]

Victim(r) ==
  IF r.size = 0
    THEN [found |-> FALSE, frame_id |-> INVALID_PAGE_ID, r |-> r]
    ELSE VictimScan(r.pages, r.current_index, r.size)

\* (mutant) size drops on every Pin of a tracked id
Pin_AlwaysCounts(r, frame_id) ==
  LET i == FindNode(r.pages, frame_id, 1) IN
  IF i = 0 THEN r
  ELSE [r EXCEPT !.pages[i].pin_num = @ + 1, !.size = @ - 1]

\* (mutant) Pin leaves the node as it is
Pin_Ignores(r, frame_id) == r

Pin(r, frame_id) ==
  LET i == FindNode(r.pages, frame_id, 1) IN
  IF i = 0 THEN r
  ELSE [r EXCEPT !.pages[i].pin_num = @ + 1,
                 !.size = IF r.pages[i].pin_num + 1 = 1 THEN @ - 1 ELSE @]

\* (mutant) a new node goes to the front of the vector
Unpin_PushFront(r, frame_id) ==
  LET i == FindNode(r.pages, frame_id, 1) IN
  IF i # 0
    THEN [r EXCEPT !.pages[i].reference_bit = IF r.pages[i].pin_num # 0 THEN TRUE ELSE @,
                   !.pages[i].pin_num = 0,
                   !.size = IF r.pages[i].pin_num # 0 THEN @ + 1 ELSE @]
  ELSE IF r.size = capacity THEN r
  ELSE [r EXCEPT !.pages = <<PageNode(frame_id)>> \o @, !.size = @ + 1]

Unpin(r, frame_id) ==
  LET i == FindNode(r.pages, frame_id, 1) IN
  IF i # 0
    THEN [r EXCEPT !.pages[i].reference_bit = IF r.pages[i].pin_num # 0 THEN TRUE ELSE @,
                   !.pages[i].pin_num = 0,
                   !.size = IF r.pages[i].pin_num # 0 THEN @ + 1 ELSE @]
  ELSE IF r.size = capacity THEN r
  ELSE [r EXCEPT !.pages = Append(@, PageNode(frame_id)), !.size = @ + 1]

Size(r) == r.size

\* pin_num of the node of id, 0 when untracked
PinNumOf(r, id) ==
  LET i == FindNode(r.pages, id, 1) IN IF i = 0 THEN 0 ELSE r.pages[i].pin_num

\* ----------------------------------------------------------- page table
Find(pt, id) == IF id \in DOMAIN pt THEN pt[id] ELSE NoFrame

\* (mutant) erase forgotten
Erase_Keeps(pt, id) == pt

Erase(pt, id) == [k \in (DOMAIN pt) \ {id} |-> pt[k]]

\* unordered_map::emplace: no effect when the key is present
Emplace(pt, id, f) ==
  IF id \in DOMAIN pt THEN pt
  ELSE [k \in (DOMAIN pt) \cup {id} |-> IF k = id THEN f ELSE pt[k]]

\* ---------------------------------------------------------- disk manager
WritePage(d, id, bytes) == IF id \in DOMAIN d THEN [d EXCEPT ![id] = bytes] ELSE d

ReadPage(d, id) == IF id \in DOMAIN d THEN d[id] ELSE 0

\* ----------------------------------------------------------------- calls
\* what a call returned: success flag, frame handed out, id Victim() gave,
\* WritePage calls made (in order)
Returned(ok, f, v, w) == [ok |-> ok, frame |-> f, victim |-> v, writes |-> w]

\* the state a handler leaves behind, and what it returned
Outcome(pt, fl, pg, r, d, npi, de, ret, st) ==
  [page_table_ |-> pt, free_list_ |-> fl, pages_ |-> pg, replacer_ |-> r,
   disk |-> d, next_page_id |-> npi, deallocated |-> de, ret |-> ret, status |-> st]

Apply(o) ==
  /\ page_table_' = o.page_table_
  /\ free_list_' = o.free_list_
  /\ pages_' = o.pages_
  /\ replacer_' = o.replacer_
  /\ disk' = o.disk
  /\ next_page_id' = o.next_page_id
  /\ deallocated' = o.deallocated
  /\ status' = o.status

\* NewPageImpl's locals before they are assigned
NoLocals == [temp_page_id |-> INVALID_PAGE_ID, frame_id |-> NoFrame, temp |-> INVALID_PAGE_ID]

Init ==
  /\ page_table_ = [k \in {} |-> NoFrame]
  /\ free_list_ = [i \in 1 .. pool_size_ |-> i - 1]
  /\ pages_ = [f \in Frames |->
                 [page_id_ |-> INVALID_PAGE_ID, pin_count_ |-> 0, is_dirty_ |-> FALSE, data_ |-> 0]]
  /\ replacer_ = [pages |-> <<>>, current_index |-> 0, size |-> 0]
  /\ disk = [p \in PageIds |-> 0]
  /\ next_page_id = 0
  /\ deallocated = {}
  /\ status = "ok"
  /\ last_fetch = INVALID_PAGE_ID
  /\ owed = {}
  /\ rt = [p \in PageIds |-> [stage |-> "none", bytes |-> 0]]
  /\ fresh = <<>>
  /\ pc = [t \in Threads |-> "idle"]
  /\ local = [t \in Threads |-> NoLocals]

\* page_table_.find(temp)->second when temp is not in the table reads through
\* end(), whose node pointer is null: the read faults and the process ends
\* inside the handler, which returns nothing
Crashed(temp) ==
  Outcome(page_table_, free_list_, pages_, replacer_, disk, next_page_id, deallocated,
          Returned(FALSE, NoFrame, temp, <<>>), "crashed")

\* ------------------------------------------------------ BufferPoolManager
RECURSIVE WriteAll(_, _)
WriteAll(d, ws) ==
  IF ws = <<>> THEN d ELSE WriteAll(WritePage(d, Head(ws)[1], Head(ws)[2]), Tail(ws))

\* (mutant) the replaced frame is never written back
WriteBack_Never(old) == <<>>

\* step 2 of FetchPageImpl: the WritePage calls for the frame being replaced
WriteBack(old) == IF old.is_dirty_ THEN <<<<old.page_id_, old.data_>>>> ELSE <<>>

\* steps 2-4 of FetchPageImpl on the chosen frame
FetchInstall(page_id, replace_frame, fl, r, victim) ==
  LET old == pages_[replace_frame]
      w == WriteBack(old)
      d == WriteAll(disk, w)
      pt == Emplace(Erase(page_table_, old.page_id_), page_id, replace_frame)
      pg == [pages_ EXCEPT ![replace_frame] =
               [page_id_ |-> page_id, pin_count_ |-> 1, is_dirty_ |-> FALSE,
                data_ |-> ReadPage(d, page_id)]]
  IN Outcome(pt, fl, pg, Pin(r, page_id), d, next_page_id, deallocated,
             Returned(TRUE, replace_frame, victim, w), "ok")

FetchPageImpl(page_id) ==
  LET f == Find(page_table_, page_id) IN
  IF f # NoFrame
    THEN Outcome(page_table_, free_list_, [pages_ EXCEPT ![f].pin_count_ = @ + 1],
                 Pin(replacer_, page_id), disk, next_page_id, deallocated,
                 Returned(TRUE, f, INVALID_PAGE_ID, <<>>), "ok")
  ELSE IF free_list_ = <<>> /\ Size(replacer_) = 0
    THEN Outcome(page_table_, free_list_, pages_, replacer_, disk, next_page_id, deallocated,
                 Returned(FALSE, NoFrame, INVALID_PAGE_ID, <<>>), "ok")
  ELSE IF free_list_ # <<>>
    THEN FetchInstall(page_id, Head(free_list_), Tail(free_list_), replacer_, INVALID_PAGE_ID)
  ELSE LET v == Victim(replacer_)
           temp == v.frame_id
           found == Find(page_table_, temp)
       IN IF found # NoFrame
            THEN FetchInstall(page_id, found, free_list_, v.r, temp)
            ELSE Crashed(temp)

\* (mutant) the count is not floored
Floor_Missing(pin_count) == pin_count

\* lines 97-98: a count that fell to 0 or below is set to 0
Floor(pin_count) == IF pin_count <= 0 THEN 0 ELSE pin_count

UnpinPageImpl(page_id, is_dirty) ==
  LET frame_id == Find(page_table_, page_id) IN
  IF frame_id = NoFrame
    THEN Outcome(page_table_, free_list_, pages_, replacer_, disk, next_page_id, deallocated,
                 Returned(FALSE, NoFrame, INVALID_PAGE_ID, <<>>), "ok")
  ELSE LET flag == pages_[frame_id].pin_count_ > 0
           dec == pages_[frame_id].pin_count_ - 1
           pg == [pages_ EXCEPT ![frame_id].is_dirty_ = is_dirty,
                                ![frame_id].pin_count_ = Floor(dec)]
           r == IF dec <= 0 THEN Unpin(replacer_, page_id) ELSE replacer_
       IN Outcome(page_table_, free_list_, pg, r, disk, next_page_id, deallocated,
                  Returned(flag, frame_id, INVALID_PAGE_ID, <<>>), "ok")

\* (mutant) only a dirty frame is written
FlushWrites_OnlyDirty(pt, pg, page_id) ==
  IF Find(pt, page_id) = NoFrame \/ ~pg[Find(pt, page_id)].is_dirty_ THEN <<>>
  ELSE <<<<page_id, pg[Find(pt, page_id)].data_>>>>

\* (mutant) the lookup's result is not tested before the write
FlushWrites_Unchecked(pt, pg, page_id) == <<<<page_id, 0>>>>

\* the disk writes FlushPageImpl(page_id) makes in page table pt and frames pg
FlushWrites(pt, pg, page_id) ==
  IF Find(pt, page_id) = NoFrame THEN <<>>
  ELSE <<<<page_id, pg[Find(pt, page_id)].data_>>>>

FlushPageImpl(page_id) ==
  LET w == FlushWrites(page_table_, pages_, page_id) IN
  Outcome(page_table_, free_list_, pages_, replacer_, WriteAll(disk, w), next_page_id, deallocated,
          Returned(Find(page_table_, page_id) # NoFrame, Find(page_table_, page_id),
                   INVALID_PAGE_ID, w), "ok")

\* step 3 of NewPageImpl on the chosen frame
NewInstall(temp_page_id, frame_id, pt, fl, r, victim, w) ==
  LET pg == [pages_ EXCEPT ![frame_id] =
               [page_id_ |-> temp_page_id, pin_count_ |-> 1, is_dirty_ |-> FALSE, data_ |-> 0]]
  IN Outcome(Emplace(pt, temp_page_id, frame_id), fl, pg, Pin(r, temp_page_id),
             WriteAll(disk, w), next_page_id + 1, deallocated,
             Returned(TRUE, frame_id, victim, w), "ok")

\* the eviction branch of NewPageImpl once find(temp)->second gave frame_id
NewEvict(temp_page_id, frame_id, r, temp) ==
  NewInstall(temp_page_id, frame_id, Erase(page_table_, temp), free_list_, r, temp,
             IF pages_[frame_id].is_dirty_ THEN FlushWrites(page_table_, pages_, temp) ELSE <<>>)

NewPageImpl ==
  LET temp_page_id == next_page_id IN
  IF Size(replacer_) = 0 /\ free_list_ = <<>>
    THEN Outcome(page_table_, free_list_, pages_, replacer_, disk, next_page_id + 1, deallocated,
                 Returned(FALSE, NoFrame, INVALID_PAGE_ID, <<>>), "ok")
  ELSE IF free_list_ # <<>>
    THEN NewInstall(temp_page_id, Head(free_list_), page_table_, Tail(free_list_), replacer_,
                    INVALID_PAGE_ID, <<>>)
  ELSE LET v == Victim(replacer_)
           temp == v.frame_id
           found == Find(page_table_, temp)
       IN IF found # NoFrame
            THEN NewEvict(temp_page_id, found, v.r, temp)
            ELSE Crashed(temp)

\* (mutant) the pin count is not looked at
InUse_Never(page) == FALSE

\* line 165: someone is using the page
InUse(page) == page.pin_count_ > 0

DeletePageImpl(page_id) ==
  LET frame_id == Find(page_table_, page_id)
      de == deallocated \cup {page_id}
  IN
  IF frame_id = NoFrame
    THEN Outcome(page_table_, free_list_, pages_, replacer_, disk, next_page_id, de,
                 Returned(TRUE, NoFrame, INVALID_PAGE_ID, <<>>), "ok")
  ELSE IF InUse(pages_[frame_id])
    THEN Outcome(page_table_, free_list_, pages_, replacer_, disk, next_page_id, de,
                 Returned(FALSE, frame_id, INVALID_PAGE_ID, <<>>), "ok")
  ELSE Outcome(Erase(page_table_, page_id), Append(free_list_, frame_id),
               [pages_ EXCEPT ![frame_id].page_id_ = INVALID_PAGE_ID], replacer_, disk,
               next_page_id, de, Returned(TRUE, frame_id, INVALID_PAGE_ID, <<>>), "ok")

\* FlushAllPagesImpl holds latch_ while its loop runs. For the first frame
\* with a valid page id it calls FlushPageImpl, whose first statement locks
\* latch_ again: the thread waits for the std::mutex it owns itself (the
\* freeze the note in NewPageImpl reports) and no WritePage is reached.
FlushAllPagesImpl ==
  IF \E i \in Frames : pages_[i].page_id_ # INVALID_PAGE_ID
    THEN Outcome(page_table_, free_list_, pages_, replacer_, disk, next_page_id, deallocated,
                 Returned(FALSE, NoFrame, INVALID_PAGE_ID, <<>>), "hung")
    ELSE Outcome(page_table_, free_list_, pages_, replacer_, disk, next_page_id, deallocated,
                 Returned(TRUE, NoFrame, INVALID_PAGE_ID, <<>>), "ok")

\* the identifiers a caller can name: allocated, and on disk or in the pool
Nameable ==
  {p \in 0 .. (next_page_id - 1) : p \notin deallocated \/ p \in DOMAIN page_table_}

FetchPage(page_id) ==
  /\ status = "ok"
  /\ Find(page_table_, page_id) # NoFrame => pages_[page_table_[page_id]].pin_count_ < MaxPin
  /\ PinNumOf(replacer_, page_id) < MaxPin
  /\ Apply(FetchPageImpl(page_id))

UnpinPage(page_id, is_dirty) ==
  /\ status = "ok"
  /\ Apply(UnpinPageImpl(page_id, is_dirty))

FlushPage(page_id) ==
  /\ status = "ok"
  /\ Apply(FlushPageImpl(page_id))

NewPage ==
  /\ status = "ok"
  /\ next_page_id < MaxPageId
  /\ Apply(NewPageImpl)

DeletePage(page_id) ==
  /\ status = "ok"
  /\ Cardinality(deallocated \cup {page_id}) <= MaxDeallocated
  /\ Apply(DeletePageImpl(page_id))

FlushAllPages ==
  /\ status = "ok"
  /\ Apply(FlushAllPagesImpl)

\* the caller writes through the handle of a page it has pinned
CallerWrite(page_id, bytes) ==
  /\ status = "ok"
  /\ Find(page_table_, page_id) # NoFrame
  /\ pages_[page_table_[page_id]].pin_count_ > 0
  /\ pages_' = [pages_ EXCEPT ![page_table_[page_id]].data_ = bytes]
  /\ UNCHANGED <<page_table_, free_list_, replacer_, disk, next_page_id, deallocated, status>>

\* every call of the pool's interface, from one caller
Next ==
  \/ \E page_id \in Nameable : FetchPage(page_id) /\ UNCHANGED <<hist, mt>>
  \/ \E page_id \in Nameable, is_dirty \in BOOLEAN : UnpinPage(page_id, is_dirty) /\ UNCHANGED <<hist, mt>>
  \/ \E page_id \in Nameable : FlushPage(page_id) /\ UNCHANGED <<hist, mt>>
  \/ NewPage /\ UNCHANGED <<hist, mt>>
  \/ \E page_id \in Nameable : DeletePage(page_id) /\ UNCHANGED <<hist, mt>>
  \/ FlushAllPages /\ UNCHANGED <<hist, mt>>

Spec == Init /\ [][Next]_vars

\* --------------------------------------------- calls with their history
\* owed after a call that returned ret: an evicted page is owed no more
StillOwed(ret) == owed \ {ret.victim}

FetchPageD(page_id) ==
  /\ FetchPage(page_id)
  /\ last_fetch' = IF FetchPageImpl(page_id).ret.ok THEN page_id ELSE INVALID_PAGE_ID
  /\ owed' = StillOwed(FetchPageImpl(page_id).ret)
  /\ UNCHANGED <<rt, fresh, mt>>

UnpinPageD(page_id, is_dirty) ==
  /\ UnpinPage(page_id, is_dirty)
  /\ last_fetch' = INVALID_PAGE_ID
  /\ owed' = IF is_dirty /\ last_fetch = page_id /\ page_id \in DOMAIN page_table_
              THEN owed \cup {page_id} ELSE owed
  /\ UNCHANGED <<rt, fresh, mt>>

NewPageD ==
  /\ NewPage
  /\ last_fetch' = INVALID_PAGE_ID
  /\ owed' = StillOwed(NewPageImpl.ret)
  /\ UNCHANGED <<rt, fresh, mt>>

\* FetchPage, UnpinPage and NewPage, remembering which pages are owed a write
NextDirty ==
  \/ \E page_id \in Nameable : FetchPageD(page_id)
  \/ \E page_id \in Nameable, is_dirty \in BOOLEAN : UnpinPageD(page_id, is_dirty)
  \/ NewPageD

SpecDirty == Init /\ [][NextDirty]_vars

\* the round trip of a page: "new" (NewPage returned it), "written" (the caller
\* wrote into its frame), "unpinned" (then unpinned it dirty; bytes are what
\* the frame held), "evicted" (FetchPage or NewPage then took its frame),
\* "fetched" (FetchPage then brought it back); any other call on the page
\* ends the round trip ("none")
Stage(st, b) == [stage |-> st, bytes |-> b]

\* rt after a call that evicted victim
RtEvicted(r, victim) ==
  [x \in PageIds |->
     IF x # victim THEN r[x]
     ELSE IF r[x].stage = "unpinned" THEN Stage("evicted", r[x].bytes)
     ELSE Stage("none", 0)]

FetchPageR(page_id) ==
  /\ FetchPage(page_id)
  /\ rt' = IF ~FetchPageImpl(page_id).ret.ok THEN rt
            ELSE RtEvicted([rt EXCEPT ![page_id] =
                              IF @.stage = "evicted" THEN Stage("fetched", @.bytes)
                              ELSE Stage("none", 0)],
                           FetchPageImpl(page_id).ret.victim)
  /\ UNCHANGED <<last_fetch, owed, fresh, mt>>

UnpinPageR(page_id, is_dirty) ==
  /\ UnpinPage(page_id, is_dirty)
  /\ rt' = IF page_id \notin DOMAIN page_table_ THEN rt
            ELSE [rt EXCEPT ![page_id] =
                    IF @.stage = "written" /\ is_dirty
                      THEN Stage("unpinned", pages_[page_table_[page_id]].data_)
                      ELSE Stage("none", 0)]
  /\ UNCHANGED <<last_fetch, owed, fresh, mt>>

NewPageR ==
  /\ next_page_id < MaxRoundTrip
  /\ NewPage
  /\ rt' = IF ~NewPageImpl.ret.ok THEN rt
            ELSE RtEvicted([rt EXCEPT ![next_page_id] = Stage("new", 0)], NewPageImpl.ret.victim)
  /\ UNCHANGED <<last_fetch, owed, fresh, mt>>

CallerWriteR(page_id, bytes) ==
  /\ CallerWrite(page_id, bytes)
  /\ rt' = [rt EXCEPT ![page_id] =
              IF @.stage \in {"new", "written"} THEN Stage("written", 0) ELSE Stage("none", 0)]
  /\ UNCHANGED <<last_fetch, owed, fresh, mt>>

FlushPageR(page_id) ==
  /\ FlushPage(page_id)
  /\ rt' = IF page_id \notin DOMAIN page_table_ THEN rt
            ELSE [rt EXCEPT ![page_id] = Stage("none", 0)]
  /\ UNCHANGED <<last_fetch, owed, fresh, mt>>

\* NewPage, FetchPage, UnpinPage, FlushPage and the caller's writes, following
\* round trips
NextRT ==
  \/ \E page_id \in Nameable : FetchPageR(page_id)
  \/ \E page_id \in Nameable, is_dirty \in BOOLEAN : UnpinPageR(page_id, is_dirty)
  \/ NewPageR
  \/ \E page_id \in Nameable, bytes \in Bytes : CallerWriteR(page_id, bytes)
  \/ \E page_id \in Nameable : FlushPageR(page_id)

SpecRT == Init /\ [][NextRT]_vars

\* ------------------------------------------------- several threads
\* NewPageImpl statement by statement, run by thread t with no lock held.
\* line 121: AllocatePage
NewPage_Allocate(t) ==
  /\ status = "ok" /\ pc[t] = "idle"
  /\ next_page_id < MaxPageId
  /\ next_page_id' = next_page_id + 1
  /\ local' = [local EXCEPT ![t].temp_page_id = next_page_id]
  /\ pc' = [pc EXCEPT ![t] = "check"]
  /\ UNCHANGED <<page_table_, free_list_, pages_, replacer_, disk, deallocated, status, hist>>

\* lines 124-126: all pinned, return nullptr
NewPage_Check(t) ==
  /\ status = "ok" /\ pc[t] = "check"
  /\ IF Size(replacer_) = 0 /\ free_list_ = <<>>
       THEN pc' = [pc EXCEPT ![t] = "idle"] /\ local' = [local EXCEPT ![t] = NoLocals]
       ELSE pc' = [pc EXCEPT ![t] = "branch"] /\ UNCHANGED local
  /\ UNCHANGED <<pool, hist>>

\* line 128: free list first
NewPage_Branch(t) ==
  /\ status = "ok" /\ pc[t] = "branch"
  /\ pc' = [pc EXCEPT ![t] = IF free_list_ # <<>> THEN "front" ELSE "victim"]
  /\ UNCHANGED <<pool, hist, local>>

\* line 129: frame_id = free_list_.front(). On a list another thread emptied
\* since line 128, front() reads the list's own header in place of an element:
\* any frame index
NewPage_Front(t) ==
  /\ status = "ok" /\ pc[t] = "front"
  /\ \E f \in (IF free_list_ # <<>> THEN {Head(free_list_)} ELSE Frames) :
       local' = [local EXCEPT ![t].frame_id = f]
  /\ pc' = [pc EXCEPT ![t] = "pop"]
  /\ UNCHANGED <<pool, hist>>

\* line 130: free_list_.pop_front(). On an empty list it unlinks and frees the
\* header, which is no heap block: the process ends
NewPage_Pop(t) ==
  /\ status = "ok" /\ pc[t] = "pop"
  /\ IF free_list_ # <<>>
       THEN /\ free_list_' = Tail(free_list_)
            /\ pc' = [pc EXCEPT ![t] = "install"]
            /\ UNCHANGED status
       ELSE /\ status' = "crashed"
            /\ UNCHANGED <<free_list_, pc>>
  /\ UNCHANGED <<page_table_, pages_, replacer_, disk, next_page_id, deallocated, hist, local>>

\* line 133: replacer_->Victim(&temp). When another thread took the last
\* eligible page since line 124, Victim returns false and temp stays
\* uninitialized: any value
NewPage_Victim(t) ==
  /\ status = "ok" /\ pc[t] = "victim"
  /\ LET v == Victim(replacer_) IN
       /\ replacer_' = v.r
       /\ \E id \in (IF v.found THEN {v.frame_id} ELSE PageIds \cup {INVALID_PAGE_ID}) :
            local' = [local EXCEPT ![t].temp = id]
  /\ pc' = [pc EXCEPT ![t] = "find"]
  /\ UNCHANGED <<page_table_, free_list_, pages_, disk, next_page_id, deallocated, status, hist>>

\* line 134: frame_id = page_table_.find(temp)->second
NewPage_Find(t) ==
  /\ status = "ok" /\ pc[t] = "find"
  /\ IF Find(page_table_, local[t].temp) # NoFrame
       THEN /\ local' = [local EXCEPT ![t].frame_id = page_table_[local[t].temp]]
            /\ pc' = [pc EXCEPT ![t] = "flush"]
            /\ UNCHANGED status
       ELSE /\ status' = Crashed(local[t].temp).status
            /\ UNCHANGED <<pc, local>>
  /\ UNCHANGED <<page_table_, free_list_, pages_, replacer_, disk, next_page_id, deallocated, hist>>

\* lines 135-137: FlushPageImpl(temp) if the frame is dirty (it takes latch_
\* for itself)
NewPage_Flush(t) ==
  /\ status = "ok" /\ pc[t] = "flush"
  /\ disk' = IF pages_[local[t].frame_id].is_dirty_
               THEN WriteAll(disk, FlushWrites(page_table_, pages_, local[t].temp))
               ELSE disk
  /\ pc' = [pc EXCEPT ![t] = "erase"]
  /\ UNCHANGED <<page_table_, free_list_, pages_, replacer_, next_page_id, deallocated, status, hist, local>>

\* line 138: page_table_.erase(temp)
NewPage_Erase(t) ==
  /\ status = "ok" /\ pc[t] = "erase"
  /\ page_table_' = Erase(page_table_, local[t].temp)
  /\ pc' = [pc EXCEPT ![t] = "install"]
  /\ UNCHANGED <<free_list_, pages_, replacer_, disk, next_page_id, deallocated, status, hist, local>>

\* lines 141-149: step 3 and the return
NewPage_Install(t) ==
  /\ status = "ok" /\ pc[t] = "install"
  /\ page_table_' = Emplace(page_table_, local[t].temp_page_id, local[t].frame_id)
  /\ pages_' = [pages_ EXCEPT ![local[t].frame_id] =
                  [page_id_ |-> local[t].temp_page_id, pin_count_ |-> 1,
                   is_dirty_ |-> FALSE, data_ |-> 0]]
  /\ replacer_' = Pin(replacer_, local[t].temp_page_id)
  /\ pc' = [pc EXCEPT ![t] = "idle"]
  /\ local' = [local EXCEPT ![t] = NoLocals]
  /\ UNCHANGED <<free_list_, disk, next_page_id, deallocated, status, hist>>

\* a thread outside NewPageImpl makes a call that holds latch_ throughout
Locked(call) == (\E t \in Threads : pc[t] = "idle") /\ call /\ UNCHANGED <<hist, mt>>

\* threads calling NewPage and UnpinPage
NextMT ==
  \/ \E t \in Threads : NewPage_Allocate(t)
  \/ \E t \in Threads : NewPage_Check(t)
  \/ \E t \in Threads : NewPage_Branch(t)
  \/ \E t \in Threads : NewPage_Front(t)
  \/ \E t \in Threads : NewPage_Pop(t)
  \/ \E t \in Threads : NewPage_Victim(t)
  \/ \E t \in Threads : NewPage_Find(t)
  \/ \E t \in Threads : NewPage_Flush(t)
  \/ \E t \in Threads : NewPage_Erase(t)
  \/ \E t \in Threads : NewPage_Install(t)
  \/ \E page_id \in Nameable, is_dirty \in BOOLEAN : Locked(UnpinPage(page_id, is_dirty))

SpecMT == Init /\ [][NextMT]_vars

\* ------------------------------------------------ the replacer by itself
\* everything but the replacer and the record of its fresh ids
rest == <<page_table_, free_list_, pages_, disk, next_page_id, deallocated, status,
          last_fetch, owed, rt, mt>>

ReplacerPin(frame_id) ==
  /\ PinNumOf(replacer_, frame_id) < MaxPin
  /\ replacer_' = Pin(replacer_, frame_id)
  /\ fresh' = <<>>
  /\ UNCHANGED rest

ReplacerUnpin(frame_id) ==
  /\ replacer_' = Unpin(replacer_, frame_id)
  /\ fresh' = IF replacer_.pages = <<>> THEN <<frame_id>>
              ELSE IF fresh # <<>> /\ \A i \in 1 .. Len(fresh) : fresh[i] # frame_id
                THEN Append(fresh, frame_id)
              ELSE <<>>
  /\ UNCHANGED rest

ReplacerVictim ==
  /\ replacer_' = Victim(replacer_).r
  /\ fresh' = <<>>
  /\ UNCHANGED rest

\* Pin, Unpin and Victim called on a replacer of its own
NextLRU ==
  \/ \E frame_id \in PageIds : ReplacerPin(frame_id)
  \/ \E frame_id \in PageIds : ReplacerUnpin(frame_id)
  \/ ReplacerVictim

SpecLRU == Init /\ [][NextLRU]_vars

\* ------------------------------------------------------------ type check
TypeOK ==
  /\ DOMAIN page_table_ \subseteq PageIds
  /\ \A f \in Frames : pages_[f].pin_count_ \in 0 .. MaxPin
  /\ \A i \in 1 .. Len(replacer_.pages) : replacer_.pages[i].pin_num \in 0 .. MaxPin
  /\ replacer_.size = Cardinality(Eligible(replacer_))
  /\ replacer_.pages # <<>> => replacer_.current_index < Len(replacer_.pages)

\* ------------------------------------------------------------ properties
Range(f) == {f[x] : x \in DOMAIN f}

Resident == DOMAIN page_table_

FrameOf(page_id) == page_table_[page_id]

Pinned(page_id) == pages_[FrameOf(page_id)].pin_count_ > 0

\* all frames pinned: none free, every resident page in use
AllPinned == free_list_ = <<>> /\ \A p \in Resident : Pinned(p)

\* C1: every frame index is in exactly one of the free list and the page
\* table: no two page-table entries share a frame, no frame is twice in the
\* free list, and a frame is free exactly when no entry maps to it.
C1_FrameInExactlyOne ==
  /\ \A p, q \in Resident : p # q => page_table_[p] # page_table_[q]
  /\ \A i, j \in 1 .. Len(free_list_) : i # j => free_list_[i] # free_list_[j]
  /\ \A f \in Frames : (f \in Range(free_list_)) # (f \in Range(page_table_))

\* a frame went from the free list to a page, back by DeletePage, and the
\* other frame holds a page brought in meanwhile
C1_Witness ==
  /\ status = "ok"
  /\ deallocated # {}
  /\ free_list_ = <<0>>
  /\ \E p \in Resident : page_table_[p] = 1

\* C2: a resident page with pin count > 0 is not in the replacer's eligible
\* set, and when FetchPage or NewPage would call Victim() (no free frame, and
\* Size() > 0) the id it returns is not that of a resident pinned page.
C2_PinnedNeverEvictable ==
  /\ \A p \in Resident : Pinned(p) => p \notin Eligible(replacer_)
  /\ (free_list_ = <<>> /\ Size(replacer_) > 0) =>
       LET temp == Victim(replacer_).frame_id IN ~(temp \in Resident /\ Pinned(temp))

\* a pinned page the replacer tracks next to an eligible one, with no free frame
C2_Witness ==
  /\ status = "ok"
  /\ free_list_ = <<>>
  /\ Size(replacer_) > 0
  /\ \E p \in Resident : Pinned(p) /\ Tracked(replacer_, p)

\* C3: FetchPage of a non-resident page and NewPage return failure exactly
\* when all frames are pinned; and when exactly one page of a full pool is
\* unpinned, NewPage succeeds in that page's frame.
C3_FailsIffAllPinned ==
  status = "ok" =>
    /\ (NewPageImpl.status = "ok" /\ ~NewPageImpl.ret.ok) <=> AllPinned
    /\ \A p \in Nameable \ Resident :
         (FetchPageImpl(p).status = "ok" /\ ~FetchPageImpl(p).ret.ok) <=> AllPinned
    /\ \A p \in Resident :
         (free_list_ = <<>> /\ ~Pinned(p) /\ \A q \in Resident \ {p} : Pinned(q)) =>
           (NewPageImpl.status = "ok" /\ NewPageImpl.ret.ok /\ NewPageImpl.ret.frame = FrameOf(p))

\* C5: UnpinPage(p, is_dirty) on a resident page leaves the frame's dirty
\* flag at (old flag OR is_dirty).
C5_DirtyIsOred ==
  status = "ok" =>
    \A p \in Resident, is_dirty \in BOOLEAN :
      UnpinPageImpl(p, is_dirty).pages_[FrameOf(p)].is_dirty_
        = (pages_[FrameOf(p)].is_dirty_ \/ is_dirty)

\* C8: FlushAllPages returns, having made one WritePage(id, bytes) for every
\* resident page.
C8_FlushAllReturns ==
  status = "ok" =>
    /\ FlushAllPagesImpl.status = "ok"
    /\ \A p \in Resident :
         Cardinality({i \in 1 .. Len(FlushAllPagesImpl.ret.writes) :
                        FlushAllPagesImpl.ret.writes[i] = <<p, pages_[FrameOf(p)].data_>>}) = 1

\* C9: DeletePage(p) on a resident page with pin count > 0 returns false and
\* leaves page table, free list, frames and replacer as they were.
C9_DeletePinnedRefused ==
  \A p \in Resident :
    Pinned(p) =>
      /\ ~DeletePageImpl(p).ret.ok
      /\ DeletePageImpl(p).page_table_ = page_table_
      /\ DeletePageImpl(p).free_list_ = free_list_
      /\ DeletePageImpl(p).pages_ = pages_
      /\ DeletePageImpl(p).replacer_ = replacer_

\* DeletePage was called on a page that is pinned, and the page is still there
C9_Witness ==
  \E p \in deallocated : p \in Resident /\ Pinned(p) /\ status = "ok"

\* C10: no pin count is negative, and UnpinPage on a resident page whose
\* count is 0 returns false and leaves the count at 0.
C10_PinCountFloored ==
  /\ \A f \in Frames : pages_[f].pin_count_ >= 0
  /\ \A p \in Resident, is_dirty \in BOOLEAN :
       pages_[FrameOf(p)].pin_count_ = 0 =>
         /\ ~UnpinPageImpl(p, is_dirty).ret.ok
         /\ UnpinPageImpl(p, is_dirty).pages_[FrameOf(p)].pin_count_ = 0

\* a resident page at count 0 after an unpin: it is in the replacer
C10_Witness ==
  \E p \in Resident :
    /\ pages_[FrameOf(p)].pin_count_ = 0
    /\ p \in Eligible(replacer_)
    /\ ~UnpinPageImpl(p, FALSE).ret.ok

\* C4: when the frame of a page that was unpinned dirty right after its
\* FetchPage is chosen as victim by FetchPage or NewPage, that call writes the
\* page with the frame's contents to disk.
C4_OwedPageWrittenOnEviction ==
  status = "ok" =>
    \A p \in owed \cap Resident :
      /\ NewPageImpl.ret.victim = p =>
           \E i \in 1 .. Len(NewPageImpl.ret.writes) :
              NewPageImpl.ret.writes[i] = <<p, pages_[FrameOf(p)].data_>>
      /\ \A q \in Nameable \ Resident :
           FetchPageImpl(q).ret.victim = p =>
             \E i \in 1 .. Len(FetchPageImpl(q).ret.writes) :
                FetchPageImpl(q).ret.writes[i] = <<p, pages_[FrameOf(p)].data_>>

\* C6: a page that NewPage returned, that was written, unpinned dirty and
\* then evicted by FetchPage or NewPage calls comes back from FetchPage with
\* the bytes it had when it was unpinned.
C6_RoundTrip ==
  \A x \in PageIds :
    rt[x].stage = "fetched" =>
      x \in Resident /\ pages_[FrameOf(x)].data_ = rt[x].bytes

\* a page went round with bytes other than the zeroes NewPage leaves
C6_Witness ==
  \E x \in PageIds :
    rt[x].stage = "fetched" /\ rt[x].bytes # 0 /\ pages_[FrameOf(x)].data_ = rt[x].bytes

\* the threads that have picked their frame (from the free list or from the
\* Replacer) and have yet to return it
Claiming == {t \in Threads : pc[t] \in {"flush", "erase", "install"}}

\* C7: every call runs as a whole under the pool's lock, so that no frame is
\* claimed from the free list or the Replacer by two callers at once.
C7_NoFrameClaimedTwice ==
  \A t, u \in Claiming : t # u => local[t].frame_id # local[u].frame_id

\* the call that left o behind returned false, made no disk call and changed
\* nothing of the pool
Untouched(o) ==
  /\ o.status = "ok" /\ ~o.ret.ok /\ o.ret.writes = <<>>
  /\ o.page_table_ = page_table_ /\ o.free_list_ = free_list_
  /\ o.pages_ = pages_ /\ o.replacer_ = replacer_ /\ o.disk = disk

\* C11: UnpinPage(p, d) and FlushPage(p) on a page identifier that is not in
\* the page table return false and change nothing, and make no disk call.
C11_NotResidentRefused ==
  status = "ok" =>
    \A p \in PageIds \ Resident :
      /\ \A is_dirty \in BOOLEAN : Untouched(UnpinPageImpl(p, is_dirty))
      /\ Untouched(FlushPageImpl(p))

\* a page that was evicted, in a pool that holds other pages, one of them
\* an eviction candidate
C11_Witness ==
  /\ status = "ok" /\ Size(replacer_) > 0
  /\ \E p \in Nameable \ Resident :
       ~UnpinPageImpl(p, TRUE).ret.ok /\ ~FlushPageImpl(p).ret.ok

\* iterations of Victim's loop from cursor ci until it returns
RECURSIVE ScanSteps(_, _)
ScanSteps(ps, ci) ==
  IF ps[ci + 1].pin_num # 0 THEN 1 + ScanSteps(ps, (ci + 1) % Len(ps))
  ELSE IF ps[ci + 1].reference_bit
    THEN 1 + ScanSteps([ps EXCEPT ![ci + 1].reference_bit = FALSE], (ci + 1) % Len(ps))
  ELSE 1

\* C12: Victim() returns none only when the eligible set is empty; when
\* Size() > 0 the scan ends within two passes over the vector, returns an id
\* that was eligible before the call, removes it from the tracked set and
\* decreases Size() by exactly one.
C12_VictimTerminates ==
  LET v == Victim(replacer_) IN
  /\ ~v.found => Eligible(replacer_) = {} /\ Size(replacer_) = 0
  /\ Size(replacer_) > 0 =>
       /\ ScanSteps(replacer_.pages, replacer_.current_index) <= 2 * Len(replacer_.pages)
       /\ v.found
       /\ v.frame_id \in Eligible(replacer_)
       /\ ~Tracked(v.r, v.frame_id)
       /\ Size(v.r) = Size(replacer_) - 1

\* a scan that passes a pinned node and gives a second chance before it returns
C12_Witness ==
  /\ Size(replacer_) > 0
  /\ ScanSteps(replacer_.pages, replacer_.current_index) > Len(replacer_.pages)
  /\ \E i \in 1 .. Len(replacer_.pages) : replacer_.pages[i].pin_num # 0

C14_SizeCountsEligible ==
  /\ Size(replacer_) = Cardinality(Eligible(replacer_))
  /\ \A id \in PageIds :
       /\ id \in Eligible(replacer_) =>
            /\ Size(Unpin(replacer_, id)) = Size(replacer_)
            /\ Size(Pin(replacer_, id)) = Size(replacer_) - 1
            /\ id \notin Eligible(Pin(replacer_, id))
       /\ id \notin Eligible(replacer_) =>
            Size(Pin(replacer_, id)) = Size(replacer_)

\* a node pinned twice beside an eligible one and an id never seen
C14_Witness ==
  /\ \E id \in PageIds : PinNumOf(replacer_, id) = 2
  /\ \E id \in PageIds : ~Tracked(replacer_, id)
  /\ Size(replacer_) = 1 /\ Len(replacer_.pages) = 3

\* C15: every id in the Replacer's eligible set names a page that is in the
\* page table with pin count 0, so a page removed by DeletePage is no
\* eviction candidate and every id Victim() hands to FetchPage or NewPage is
\* found in the page table.
C15_EligibleAreResident ==
  /\ \A id \in Eligible(replacer_) : id \in Resident /\ ~Pinned(id)
  /\ Size(replacer_) > 0 => Victim(replacer_).frame_id \in Resident

\* C16: every resident page with pin count 0 is an eviction candidate counted
\* by Size(), and an UnpinPage that brings a resident page's pin count to 0
\* leaves the page in the Replacer's eligible set.
C16_UnpinnedAreEligible ==
  /\ \A p \in Resident : ~Pinned(p) => p \in Eligible(replacer_)
  /\ status = "ok" =>
       \A p \in Resident, is_dirty \in BOOLEAN :
         UnpinPageImpl(p, is_dirty).pages_[FrameOf(p)].pin_count_ = 0 =>
           p \in Eligible(UnpinPageImpl(p, is_dirty).replacer_)

\* the node of id in replacer r (id is tracked)
NodeOf(r, id) == r.pages[FindNode(r.pages, id, 1)]

\* C17: an id that becomes tracked for the first time through Unpin enters
\* the eligible set with its recency bit set, so the Victim() scan that
\* reaches it clears the bit and moves on before it can select it.
C17_NewNodeHasBitSet ==
  \A i \in 1 .. Len(fresh) :
    Tracked(replacer_, fresh[i]) =>
      /\ NodeOf(replacer_, fresh[i]).reference_bit
      /\ ScanSteps(replacer_.pages, replacer_.current_index) > 1

\* C18: FlushPage(p) on a resident page makes exactly one WritePage(p, the
\* frame's bytes), dirty or not, returns true, and leaves the page table, the
\* free list, the frame's pin count and the Replacer's eligible set unchanged.
C18_FlushWritesOnce ==
  status = "ok" =>
    \A p \in Resident :
      LET o == FlushPageImpl(p) IN
      /\ o.status = "ok" /\ o.ret.ok
      /\ o.ret.writes = <<<<p, pages_[FrameOf(p)].data_>>>>
      /\ o.disk = [disk EXCEPT ![p] = pages_[FrameOf(p)].data_]
      /\ o.page_table_ = page_table_ /\ o.free_list_ = free_list_
      /\ o.pages_[FrameOf(p)].pin_count_ = pages_[FrameOf(p)].pin_count_
      /\ Eligible(o.replacer_) = Eligible(replacer_)

\* a clean frame whose bytes differ from the disk's, and a flush of it
C18_Witness ==
  \E p \in Resident :
    /\ ~pages_[FrameOf(p)].is_dirty_
    /\ pages_[FrameOf(p)].data_ # disk[p]
    /\ FlushPageImpl(p).disk[p] = pages_[FrameOf(p)].data_
    /\ \E q \in Resident : q # p /\ disk[q] # 0

\* the WritePage calls the next call of the pool can make
NextWrites ==
  UNION ({Range(NewPageImpl.ret.writes)}
         \cup {Range(FetchPageImpl(q).ret.writes) : q \in Nameable}
         \cup {Range(FlushPageImpl(q).ret.writes) : q \in Nameable}
         \cup {Range(DeletePageImpl(q).ret.writes) : q \in Nameable})

\* C19: every WritePage the pool issues names a valid page identifier that is
\* in the page table at the moment of the call; the bytes of a page that
\* DeletePage discarded are never written.
C19_WritesNameResidentPages ==
  status = "ok" =>
    \A w \in NextWrites : w[1] # INVALID_PAGE_ID /\ w[1] \in Resident

\* C20: on a replacer built with capacity N, Size() never exceeds N, and an
\* Unpin made when the eligible count is N leaves the eligible set unchanged.
C20_SizeWithinCapacity ==
  /\ Size(replacer_) <= capacity
  /\ Cardinality(Eligible(replacer_)) <= capacity
  /\ Size(replacer_) = capacity =>
       \A id \in PageIds : Eligible(Unpin(replacer_, id)) = Eligible(replacer_)

=============================================================================
